---- MODULE Spec2Model ----
(***************************************************************************)
(* A model of the chapter-image extraction pipeline of the AzoraMoon       *)
(* scraper: the candidate classifiers (scraper.py, playwright_worker.py,   *)
(* chapter_scraper.py), the static pass (scraper.extract_images), the      *)
(* browser pass (playwright_worker.scrape_chapter_with_playwright), the    *)
(* orchestrator (chapter_scraper.extract_chapter_content) and the document *)
(* cache (utils.cached_fetch).                                             *)
(*                                                                         *)
(* URLs are TLA+ strings; Python's str methods (lower, startswith,         *)
(* endswith, in) are computed character by character on them.              *)
(***************************************************************************)
EXTENDS Integers, Sequences, FiniteSets, TLC

VARIABLES
    pc,                 \* position of the extract_chapter_content call
    url,                \* argument: the document URL
    playwright_fallback, \* query parameter of GET /chapter/content
    prefer_playwright,  \* argument
    site,               \* what the upstream site serves for url (fixed during a call)
    fast,               \* what scraper.extract_images returned (or raised)
    pw,                 \* what scrape_chapter_with_playwright returned (or raised)
    results,            \* the worker's local `results` dict while the browser pass runs
    browser,            \* the worker's browser session: launches, goto attempts, closes
    result,             \* the orchestrator's `result` dict
    pwCalls,            \* number of calls of scrape_chapter_with_playwright
    events,             \* order in which the passes started and finished
    cand,               \* classifier check: the candidate URL under classification
    verdict,            \* classifier check: the verdicts of the classifiers on cand
    CACHE,              \* utils._CACHE: cache key -> [ts, html]
    now,                \* time.time()
    origin,             \* the body the origin server serves (changes over time)
    calls,              \* the cached_fetch calls made so far: arguments, fetched?, body
    parsed,             \* a parse_chapter_number call: arguments and what it returned
    first,              \* the previous extract_chapter_content call of the process
    threads,            \* the cached_fetch calls running in the executor's threads
    fetch               \* a scraper.fetch_html call: its position, its GETs, what it returned

vars == <<pc, url, playwright_fallback, prefer_playwright, site, fast, pw, results, browser, result,
          pwCalls, events, cand, verdict, CACHE, now, origin, calls,
          parsed, first, threads, fetch>>

pipelineVars == <<pc, url, playwright_fallback, prefer_playwright, site, fast, pw, results, browser,
                  result, pwCalls, events>>
classifierVars == <<cand, verdict>>
cacheVars == <<CACHE, now, origin, calls>>
parserVars == <<parsed>>
rerunVars == <<first>>
threadVars == <<threads>>
fetchVars == <<fetch>>

None == "None"          \* Python's None (never a member of the URL pools)

-----------------------------------------------------------------------------
(* Python str operations                                                   *)

Upper == "ABCDEFGHIJKLMNOPQRSTUVWXYZ"
LowerLetters == "abcdefghijklmnopqrstuvwxyz"

\* one character of str.lower()
LowerChar(c) ==
    IF \E i \in 1..26 : SubSeq(Upper, i, i) = c
    THEN LET i == CHOOSE j \in 1..26 : SubSeq(Upper, j, j) = c
         IN  SubSeq(LowerLetters, i, i)
    ELSE c

RECURSIVE lower(_)
\* str.lower()
lower(s) ==
    IF Len(s) = 0 THEN ""
    ELSE LowerChar(SubSeq(s, 1, 1)) \o lower(SubSeq(s, 2, Len(s)))

\* f in s
Contains(s, f) ==
    \E i \in 1..(Len(s) - Len(f) + 1) : SubSeq(s, i, i + Len(f) - 1) = f

\* s.startswith(f)
StartsWith(s, f) ==
    /\ Len(f) <= Len(s)
    /\ SubSeq(s, 1, Len(f)) = f

\* s.endswith(f)
EndsWith(s, f) ==
    /\ Len(f) <= Len(s)
    /\ SubSeq(s, Len(s) - Len(f) + 1, Len(s)) = f

\* any(x in s for x in frags), frags a tuple of strings
ContainsAny(s, frags) == \E k \in 1..Len(frags) : Contains(s, frags[k])

\* s.endswith(tuple)
EndsWithAny(s, exts) == \E k \in 1..Len(exts) : EndsWith(s, exts[k])

\* index of the first "/" at or after position i, Len(s)+1 when there is none
RECURSIVE FindSlash(_, _)
FindSlash(s, i) ==
    IF i > Len(s) THEN Len(s) + 1
    ELSE IF SubSeq(s, i, i) = "/" THEN i
    ELSE FindSlash(s, i + 1)

\* position of "://" in s, 0 when there is none
SchemeEnd(s) ==
    IF \E i \in 1..(Len(s) - 2) : SubSeq(s, i, i + 2) = "://"
    THEN CHOOSE i \in 1..(Len(s) - 2) :
            /\ SubSeq(s, i, i + 2) = "://"
            /\ \A j \in 1..(i - 1) : SubSeq(s, j, j + 2) # "://"
    ELSE 0

\* urlparse(u).scheme
url_scheme(u) == IF SchemeEnd(u) = 0 THEN "" ELSE SubSeq(u, 1, SchemeEnd(u) - 1)

\* urlparse(u).netloc
url_netloc(u) ==
    IF SchemeEnd(u) = 0 THEN ""
    ELSE SubSeq(u, SchemeEnd(u) + 3, FindSlash(u, SchemeEnd(u) + 3) - 1)

-----------------------------------------------------------------------------
(* The classifiers                                                         *)

\* scraper._is_ui_or_icon: the deny-list of the static pass
scraper_bad ==
    << "_next/static", "default-avatar", "like.", "love.", "laugh.", "wow.",
       "cry.", "angry.", "emoji", "icon", "reaction" >>

\* scraper._looks_like_chapter_image: the allow-list of the static pass
scraper_allowed == << "storage.azoramoon.com", "/upload/", "chapter_" >>
scraper_exts == << ".jpg", ".jpeg", ".png", ".webp" >>

\* playwright_worker._looks_like_chapter_image: its two lists
worker_allowed == << "wp-manga/data", "storage.azoramoon.com", "/upload/", "chapter_" >>
worker_blocked ==
    << "wsrv.nl", "/_next/static", "like.", "love.", "default-avatar", "icon",
       "emoji", "reaction" >>

\* chapter_scraper.is_valid_image_url: its two lists
valid_exts == << ".jpg", ".jpeg", ".png", ".webp", ".gif" >>
valid_hosts == << "storage.azoramoon.com", "wp-manga", "manga" >>

is_ui_or_icon(u) == ContainsAny(lower(u), scraper_bad)

scraper_looks_like_chapter_image(u) ==
    /\ ContainsAny(lower(u), scraper_allowed)
    /\ EndsWithAny(lower(u), scraper_exts)

\* the accept decision of the static markup scan for a normalized src
static_accept(src) ==
    /\ ~is_ui_or_icon(src)
    /\ scraper_looks_like_chapter_image(src)

\* a mutant of the browser classifier: the allow-list is consulted first
worker_looks_allow_first(u) ==
    /\ u # ""
    /\ \/ ContainsAny(lower(u), worker_allowed)
       \/ ~ContainsAny(lower(u), worker_blocked)

worker_looks_like_chapter_image(u) ==
    IF u = "" THEN FALSE
    ELSE IF ContainsAny(lower(u), worker_blocked) THEN FALSE
    ELSE ContainsAny(lower(u), worker_allowed)

is_valid_image_url(u) ==
    IF u = "" THEN FALSE
    ELSE IF ContainsAny(lower(u), valid_exts) THEN TRUE
    ELSE ContainsAny(lower(u), valid_hosts)

-----------------------------------------------------------------------------
(* The inputs: what the upstream site serves                               *)

\* total number of candidates (img elements and JSON string leaves) a site serves
MaxCands == 2

\* length of the image lists the stand-ins of the two passes return
MaxStub == 3

\* the document URLs of the calls
DocUrls ==
    { "https://azoramoon.com/series/foo/chapter-7",
      "http://cdn.site/series/foo/chapter_3/" }

\* a document URL no server can be reached under: its host part is malformed
BadDocUrls == { "https://[x/series/foo" }

\* an <img> element: its src and data-src attributes (None: attribute absent)
Img(s, d) == [src |-> s, data_src |-> d]

\* the img elements the static markup and the live DOM are built from
ImgPool ==
    { Img("https://storage.azoramoon.com/upload/chapter_3/01.jpg", None),
      Img(None, "//cdn.site/storage/upload/chapter_3/02.jpg"),
      Img("/upload/chapter_3/03.webp", None),
      Img("https://wsrv.nl/?url=https://storage.azoramoon.com/04.jpg", None),
      Img("/icons/like.png", None),
      Img("https://storage.azoramoon.com/placeholder.gif",
          "https://storage.azoramoon.com/upload/chapter_3/06.jpg") }

\* the string leaves the JSON payloads are built from
JsonPool ==
    { "https://storage.azoramoon.com/upload/chapter_3/01.jpg",
      "https://storage.azoramoon.com/upload/chapter_3/10.JPG",
      "/upload/chapter_3/11.jpg" }

\* the URLs the stand-ins of the two passes return
StubPool ==
    { "https://storage.azoramoon.com/a.jpg",
      "https://cdn.site/wp-manga/data/b.png",
      "https://cdn.site/about" }

\* a site: the img elements of the static markup, the img elements of the live
\* DOM, the string leaves of __NEXT_DATA__ and of the _next/data JSON endpoint
\* (in document order), and the buildId of __NEXT_DATA__ (None: no buildId, and
\* then no endpoint to read)
Sites ==
    UNION { [ markup  : [1..t[1] -> ImgPool],
              dom     : [1..t[2] -> ImgPool],
              nd      : [1..t[3] -> JsonPool],
              nj      : [1..t[4] -> JsonPool],
              buildId : IF t[4] = 0 THEN {None, "b1"} ELSE {"b1"} ] :
            t \in { q \in (0..MaxCands) \X (0..MaxCands) \X (0..MaxCands) \X (0..MaxCands) :
                      q[1] + q[2] + q[3] + q[4] <= MaxCands } }

-----------------------------------------------------------------------------
(* Python list helpers                                                     *)

\* x in items
InSeq(x, items) == \E i \in 1..Len(items) : items[i] = x

\* list(dict.fromkeys(items)): the first occurrence of every item, in order
RECURSIVE dict_fromkeys(_)
dict_fromkeys(items) ==
    IF items = <<>> THEN <<>>
    ELSE LET init == dict_fromkeys(SubSeq(items, 1, Len(items) - 1))
             x    == items[Len(items)]
         IN  IF InSeq(x, init) THEN init ELSE Append(init, x)

\* for f in found: if f not in images: images.append(f)
RECURSIVE extend_unique(_, _)
extend_unique(images, found) ==
    IF found = <<>> THEN images
    ELSE extend_unique(IF InSeq(Head(found), images) THEN images
                       ELSE Append(images, Head(found)),
                       Tail(found))

\* [f(x) for x in items]
MapSeq(items, f(_)) == [i \in 1..Len(items) |-> f(items[i])]

RECURSIVE strip(_)
\* str.strip() (blanks)
strip(s) ==
    IF Len(s) > 0 /\ SubSeq(s, 1, 1) = " " THEN strip(SubSeq(s, 2, Len(s)))
    ELSE IF Len(s) > 0 /\ SubSeq(s, Len(s), Len(s)) = " "
         THEN strip(SubSeq(s, 1, Len(s) - 1))
    ELSE s

Truthy(v) == v # None /\ v # ""

-----------------------------------------------------------------------------
(* Reading and normalizing a candidate                                     *)

BASE_HOST == "https://azoramoon.com"

\* scraper: img.get("src") or img.get("data-src") or "", stripped
static_src(img) ==
    strip(IF Truthy(img.src) THEN img.src
          ELSE IF Truthy(img.data_src) THEN img.data_src
          ELSE "")

\* scraper: the normalization of the static markup scan
static_normalize(src) ==
    IF StartsWith(src, "//") THEN "https:" \o src
    ELSE IF StartsWith(src, "/") THEN BASE_HOST \o src
    ELSE src

\* worker: e.getAttribute('src') || e.getAttribute('data-src') || ''
dom_src(img) ==
    IF Truthy(img.src) THEN img.src
    ELSE IF Truthy(img.data_src) THEN img.data_src
    ELSE ""

\* worker: normalize_url
normalize_url(u, base_url) ==
    IF u = "" THEN u
    ELSE IF StartsWith(u, "//") THEN "https:" \o u
    ELSE IF StartsWith(u, "/")
         THEN url_scheme(base_url) \o "://" \o url_netloc(base_url) \o u
    ELSE u

\* worker: the test of deep_search_for_images on a string leaf
deep_search_accepts(u) ==
    /\ StartsWith(u, "http")
    /\ EndsWithAny(lower(u), scraper_exts)

\* The values the classifiers, the normalizer and the deep search take on the
\* strings of the pools, computed once.
RawSrcs == { dom_src(e) : e \in ImgPool } \cup JsonPool \cup {""}
Normalized ==
    { static_normalize(static_src(e)) : e \in ImgPool }
    \cup { normalize_url(u, b) : u \in RawSrcs, b \in DocUrls }
UrlUniverse == Normalized \cup StubPool
memo_normalize_url == [b \in DocUrls |-> [u \in RawSrcs |-> normalize_url(u, b)]]
memo_deep_search_accepts == [u \in JsonPool |-> deep_search_accepts(u)]
memo_static_accept == [u \in UrlUniverse |-> static_accept(u)]
memo_worker_looks == [u \in UrlUniverse |-> worker_looks_like_chapter_image(u)]
memo_is_valid == [u \in UrlUniverse |-> is_valid_image_url(u)]

-----------------------------------------------------------------------------
(* scraper.py: the static pass                                             *)

\* the candidates of the markup, in document order, before classification
static_candidates(html) ==
    MapSeq(SelectSeq(MapSeq(html, static_src), LAMBDA x : x # ""),
           static_normalize)

extract_images_from_html(html) ==
    dict_fromkeys(SelectSeq(static_candidates(html), LAMBDA u : memo_static_accept[u]))

\* the outcomes of the single HTTP GET of fetch_html
FetchOutcomes == { "200", "bad_status", "request_error" }

\* scraper.extract_images: a dict with images, or the error dict
extract_images(outcome, html) ==
    IF outcome = "200"
    THEN LET images == extract_images_from_html(html)
         IN  [raised |-> FALSE, images |-> images, count |-> Len(images),
              error |-> None]
    ELSE [raised |-> FALSE, images |-> <<>>, count |-> 0, error |-> "fetch_failed"]

-----------------------------------------------------------------------------
(* playwright_worker.py: the browser pass                                  *)

\* deep_search_for_images on the string leaves of a JSON value, in walk order
deep_search_for_images(leaves) ==
    SelectSeq(leaves, LAMBDA u : memo_deep_search_accepts[u])

\* step 1: the img elements of the live DOM
dom_scan(dom, base_url) ==
    dict_fromkeys(MapSeq(SelectSeq(MapSeq(dom, dom_src), LAMBDA x : x # ""),
                         LAMBDA x : memo_normalize_url[base_url][x]))

\* steps 2 and 3: the candidates a JSON payload adds
json_scan(leaves, base_url) ==
    MapSeq(deep_search_for_images(leaves), LAMBDA x : memo_normalize_url[base_url][x])

\* the worker's results dict when it is created
results0 == [images |-> <<>>, sources |-> <<>>, count |-> 0, error |-> None]

\* the sources the three scans record
scan_sources(dom, nd, nj) ==
    (IF dom # <<>> THEN <<"dom_img">> ELSE <<>>)
    \o (IF nd # <<>> THEN <<"next_data">> ELSE <<>>)
    \o (IF nj # <<>> THEN <<"next_json">> ELSE <<>>)

\* a mutant of the scan: the secondary endpoint is read before the DOM
worker_scan_json_first(s, base_url) ==
    LET nj   == IF s.buildId # None THEN json_scan(s.nj, base_url) ELSE <<>>
        nd   == json_scan(s.nd, base_url)
        dom  == dom_scan(s.dom, base_url)
    IN  [results0 EXCEPT
            !.images = extend_unique(extend_unique(dict_fromkeys(nj), nd), dom),
            !.sources = scan_sources(dom, nd, nj)]

\* steps 1 to 3 of the worker: results["images"] and results["sources"] before
\* the final filter
worker_scan(s, base_url) ==
    LET dom  == dom_scan(s.dom, base_url)
        nd   == json_scan(s.nd, base_url)
        nj   == IF s.buildId # None THEN json_scan(s.nj, base_url) ELSE <<>>
    IN  [results0 EXCEPT
            !.images = extend_unique(extend_unique(dom, nd), nj),
            !.sources = scan_sources(dom, nd, nj)]

\* the final filter of the worker
worker_filter(r) ==
    LET filtered == dict_fromkeys(SelectSeq(r.images, LAMBDA u : memo_worker_looks[u]))
    IN  [r EXCEPT !.images = filtered, !.count = Len(filtered)]

-----------------------------------------------------------------------------
(* chapter_scraper.py: the orchestrator                                    *)

\* a mutant of dedupe_preserve_order: nothing is ever seen
dedupe_nothing_seen(items) == items

RECURSIVE dedupe_from(_, _, _)
dedupe_from(items, seen, res) ==
    IF items = <<>> THEN res
    ELSE IF Head(items) \in seen THEN dedupe_from(Tail(items), seen, res)
    ELSE dedupe_from(Tail(items), seen \cup {Head(items)}, Append(res, Head(items)))

dedupe_preserve_order(items) == dedupe_from(items, {}, <<>>)

\* a mutant of the except clauses: the exception is not caught
except_nothing(e) == FALSE

\* line 103, except Exception: every exception the static pass raises is caught
except_fast(e) == TRUE

\* line 125, except Exception: every exception the browser pass raises is caught
except_pw(e) == TRUE

\* the orchestrator's result dict when it is created
result0 ==
    [images |-> <<>>, count |-> 0, sources |-> <<>>, note |-> None, title |-> None,
     number |-> None]

\* step 1, after scraper.extract_images returned f or raised
process_fast(res, f) ==
    IF f.raised THEN [res EXCEPT !.note = "fast_scrape_error: " \o f.error]
    ELSE IF f.images # <<>>
    THEN LET images == dedupe_preserve_order(
                           SelectSeq(f.images, LAMBDA u : memo_is_valid[u]))
         IN  IF images # <<>>
             THEN [res EXCEPT !.images = images, !.count = Len(images),
                              !.sources = Append(@, "dom_img")]
             ELSE res
    ELSE res

\* a mutant of the fallback test: the browser pass always runs
should_fallback_always(res, prefer) == TRUE

\* a mutant of the fallback test: the browser pass runs only on demand
should_fallback_on_demand(res, prefer) == prefer

\* (not result["images"]) or prefer_playwright
should_fallback(res, prefer) == res.images = <<>> \/ prefer

\* a variant of the merge that depends on what the process did before: from the
\* second call on the browser's images come first
merge_by_history(images, pw_images) ==
    IF first.ran
    THEN pw_images \o SelectSeq(images, LAMBDA x : ~InSeq(x, pw_images))
    ELSE images \o SelectSeq(pw_images, LAMBDA x : ~InSeq(x, images))

\* a mutant of the merge: the browser's images come first
merge_browser_first(images, pw_images) ==
    pw_images \o SelectSeq(images, LAMBDA i : ~InSeq(i, pw_images))

\* result["images"] + [i for i in pw_images if i not in result["images"]]
merge_images(images, pw_images) ==
    images \o SelectSeq(pw_images, LAMBDA i : ~InSeq(i, images))

\* a variant of the merge that leaves the sources as they were
merge_sources_skipped(sources, p) == sources

\* for s in pw.get("sources", ["playwright"]): append s when it is new
merge_sources(sources, p) ==
    extend_unique(sources, IF p.has_sources THEN p.sources ELSE <<"playwright">>)

\* step 2, after scrape_chapter_with_playwright returned p or raised
process_pw(res, p) ==
    IF p.raised
    THEN [res EXCEPT !.note = (IF Truthy(res.note) THEN res.note \o " | " ELSE "")
                              \o "playwright_error: " \o p.error]
    ELSE LET pw_images == SelectSeq(p.images, LAMBDA u : memo_is_valid[u])
             combined  == dedupe_preserve_order(merge_images(res.images, pw_images))
         IN  IF combined # <<>>
             THEN [res EXCEPT !.images = combined, !.count = Len(combined),
                              !.sources = merge_sources(@, p)]
             ELSE res

-----------------------------------------------------------------------------
(* The metadata resolver: chapter_scraper.parse_chapter_number             *)

Digits == "0123456789"
IsDigit(c) == \E i \in 1..10 : SubSeq(Digits, i, i) = c
DigitVal(c) == (CHOOSE i \in 1..10 : SubSeq(Digits, i, i) = c) - 1
CharAt(s, i) == IF i >= 1 /\ i <= Len(s) THEN SubSeq(s, i, i) ELSE ""
HasDigit(s) == \E i \in 1..Len(s) : IsDigit(CharAt(s, i))

\* the class [\s\-_\/:] of the first pattern
IsSep(c) == c \in {" ", "-", "_", "/", ":"}

\* first index at or after i whose character is not a separator
RECURSIVE SkipSeps(_, _)
SkipSeps(s, i) == IF IsSep(CharAt(s, i)) THEN SkipSeps(s, i + 1) ELSE i

\* first index at or after i whose character is not a digit
RECURSIVE DigitsEnd(_, _)
DigitsEnd(s, i) == IF IsDigit(CharAt(s, i)) THEN DigitsEnd(s, i + 1) ELSE i

\* [0-9]+(?:\.[0-9]+)? matched greedily at i (a digit): the index after it
NumberEnd(s, i) ==
    LET e == DigitsEnd(s, i)
    IN  IF CharAt(s, e) = "." /\ IsDigit(CharAt(s, e + 1))
        THEN DigitsEnd(s, e + 1)
        ELSE e

\* CHAPTER_RE_LIST[0].search(s): the captured group, None without a match
match_chapter(s) ==
    LET low == lower(s)
        hits == { i \in 1..(Len(s) - 6) :
                    /\ SubSeq(low, i, i + 6) = "chapter"
                    /\ IsDigit(CharAt(s, SkipSeps(s, i + 7))) }
    IN  IF hits = {} THEN None
        ELSE LET i == CHOOSE k \in hits : \A m \in hits : k <= m
                 j == SkipSeps(s, i + 7)
             IN  SubSeq(s, j, NumberEnd(s, j) - 1)

\* CHAPTER_RE_LIST[1].search(s): its last group (the number), None without a match
match_any_number(s) ==
    IF ~HasDigit(s) THEN None
    ELSE LET j == CHOOSE k \in 1..Len(s) :
                     /\ IsDigit(CharAt(s, k))
                     /\ \A m \in 1..(k - 1) : ~IsDigit(CharAt(s, m))
         IN  SubSeq(s, j, NumberEnd(s, j) - 1)

\* the integer a string of digits denotes
RECURSIVE ToInt(_)
ToInt(ds) ==
    IF Len(ds) = 0 THEN 0
    ELSE 10 * ToInt(SubSeq(ds, 1, Len(ds) - 1)) + DigitVal(CharAt(ds, Len(ds)))

RECURSIVE Pow10(_)
Pow10(k) == IF k = 0 THEN 1 ELSE 10 * Pow10(k - 1)

\* a float as <<n, d>>, the value n/d with d the least power of ten
RECURSIVE Float(_, _)
Float(n, d) == IF d > 1 /\ n % 10 = 0 THEN Float(n \div 10, d \div 10) ELSE <<n, d>>

\* float(g) for a g matched by \d+(\.\d+)?
float(g) ==
    LET e == DigitsEnd(g, 1)
        frac == SubSeq(g, e + 1, Len(g))
    IN  Float(ToInt(SubSeq(g, 1, e - 1)) * Pow10(Len(frac)) + ToInt(frac),
              Pow10(Len(frac)))

\* parse_chapter_number.try_find
try_find(s) ==
    IF s = "" THEN None
    ELSE IF match_chapter(s) # None THEN float(match_chapter(s))
    ELSE IF match_any_number(s) # None THEN float(match_any_number(s))
    ELSE None

\* first index at or after i holding one of the characters cs, Len(s)+1 if none
RECURSIVE FindAny(_, _, _)
FindAny(s, cs, i) ==
    IF i > Len(s) THEN Len(s) + 1
    ELSE IF CharAt(s, i) \in cs THEN i
    ELSE FindAny(s, cs, i + 1)

\* urlparse(u) raises ValueError("Invalid IPv6 URL"): the netloc holds one of
\* "[" and "]" without the other
urlparse_raises(u) ==
    LET b == IF SchemeEnd(u) = 0 THEN 1 ELSE SchemeEnd(u) + 3
        netloc == IF SchemeEnd(u) = 0 THEN ""
                  ELSE SubSeq(u, b, FindAny(u, {"/", "?", "#"}, b) - 1)
    IN  Contains(netloc, "[") # Contains(netloc, "]")

\* urlparse(u).path: after the netloc, up to the query or fragment, with the
\* ;parameters of the last segment cut off
url_path(u) ==
    LET b == IF SchemeEnd(u) = 0 THEN 1
             ELSE FindAny(u, {"/", "?", "#"}, SchemeEnd(u) + 3)
        raw == SubSeq(u, b, FindAny(u, {"?", "#"}, b) - 1)
        slashes == { i \in 1..Len(raw) : CharAt(raw, i) = "/" }
        last == IF slashes = {} THEN 0
                ELSE CHOOSE i \in slashes : \A k \in slashes : k <= i
    IN  SubSeq(raw, 1, FindAny(raw, {";"}, last + 1) - 1)

\* parse_chapter_number(title, url): what it returns, or that it raises
parse_chapter_number(title, u) ==
    LET t == IF title = None THEN "" ELSE title
    IN  IF try_find(t) # None THEN [raised |-> FALSE, number |-> try_find(t)]
        ELSE IF u = None \/ u = "" THEN [raised |-> FALSE, number |-> None]
        ELSE IF urlparse_raises(u) THEN [raised |-> TRUE, number |-> None]
        ELSE [raised |-> FALSE, number |-> try_find(url_path(u))]

-----------------------------------------------------------------------------
(* Step 3 of the orchestrator and its final tidying                        *)

RECURSIVE rstrip_slash(_)
\* url.rstrip("/")
rstrip_slash(s) ==
    IF Len(s) > 0 /\ SubSeq(s, Len(s), Len(s)) = "/"
    THEN rstrip_slash(SubSeq(s, 1, Len(s) - 1))
    ELSE s

RECURSIVE last_segment(_)
\* s.split("/")[-1]
last_segment(s) ==
    IF Len(s) = 0 \/ SubSeq(s, Len(s), Len(s)) = "/" THEN ""
    ELSE last_segment(SubSeq(s, 1, Len(s) - 1)) \o SubSeq(s, Len(s), Len(s))

RECURSIVE dashes_to_spaces(_)
\* s.replace("-", " ").replace("_", " ")
dashes_to_spaces(s) ==
    IF Len(s) = 0 THEN ""
    ELSE (IF SubSeq(s, 1, 1) \in {"-", "_"} THEN " " ELSE SubSeq(s, 1, 1))
         \o dashes_to_spaces(SubSeq(s, 2, Len(s)))

title_guess(u) ==
    LET path == last_segment(rstrip_slash(u))
    IN  IF path # "" THEN dashes_to_spaces(path) ELSE None

memo_title_guess == [u \in DocUrls \cup BadDocUrls |-> title_guess(u)]

\* line 146: parse_chapter_number(result["title"], url)
memo_number ==
    [u \in DocUrls \cup BadDocUrls |-> parse_chapter_number(title_guess(u), u)]

NO_IMAGES_NOTE ==
    "No images found (page might require additional JS interactions or be protected)."

\* step 3 and the final tidying
finish(res, u) ==
    LET images == dedupe_preserve_order(res.images)
        r      == [res EXCEPT !.title = memo_title_guess[u],
                              !.number = memo_number[u].number,
                              !.images = images, !.count = Len(images)]
    IN  IF r.count = 0 /\ ~Truthy(r.note) THEN [r EXCEPT !.note = NO_IMAGES_NOTE]
        ELSE r

-----------------------------------------------------------------------------
(* One call of extract_chapter_content against a site                      *)

fast0 == [raised |-> FALSE, images |-> <<>>, count |-> 0, error |-> "not_called"]
pw0 == [raised |-> FALSE, images |-> <<>>, has_sources |-> TRUE, sources |-> <<>>,
        count |-> 0, error |-> "not_called"]
browser0 == [launches |-> 0, launched |-> FALSE, gotos |-> <<>>,
             context_closed |-> FALSE, browser_closed |-> FALSE]
site0 == [markup |-> <<>>, dom |-> <<>>, nd |-> <<>>, nj |-> <<>>, buildId |-> None]

GOTO_TIMEOUT == 60000

\* a retry that waits no longer than the first attempt
goto_retry_same_timeout == GOTO_TIMEOUT

GOTO_RETRY_TIMEOUT == 120000

verdict0 == [by |-> None, accept |-> FALSE]
ClassifierIdle == cand = "" /\ verdict = verdict0
CacheIdle == CACHE = <<>> /\ now = 0 /\ origin = "" /\ calls = <<>>
parsed0 == [title |-> None, url |-> None, called |-> FALSE, raised |-> FALSE,
            number |-> None]
ParserIdle == parsed = parsed0
first0 == [ran |-> FALSE]
RerunIdle == first = first0
ThreadsIdle == threads = <<>>

\* what fetch_html returns: (ok, html) or (ok, {error, status_code,
\* body_snippet}); 0 and None stand for the keys a dict does not have
ret0 == [ok |-> FALSE, html |-> None, error |-> None, status_code |-> 0,
         body_snippet |-> None]
fetch0 == [pc |-> "idle", url |-> None, gets |-> 0, outcome |-> None, status_code |-> 0,
           text |-> None, ret |-> ret0]
FetchIdle == fetch = fetch0

PipelineInit(urls, sites) ==
    /\ pc = "idle"
    /\ url \in urls
    \* main.chapter_content, lines 66-70: the fourth positional argument of
    \* extract_chapter_content is the request's playwright_fallback
    /\ playwright_fallback \in BOOLEAN
    /\ prefer_playwright = playwright_fallback
    /\ site \in sites
    /\ fast = fast0
    /\ pw = pw0
    /\ results = results0
    /\ browser = browser0
    /\ result = result0
    /\ pwCalls = 0
    /\ events = <<>>

\* line 95: scraper.extract_images is called; its HTTP GET is in flight
CallStatic ==
    /\ pc = "idle"
    /\ pc' = "static"
    /\ events' = Append(events, "static_start")
    /\ UNCHANGED <<url, playwright_fallback, prefer_playwright, site,
                   fast, pw, results, browser, result,
                   pwCalls>>
    /\ UNCHANGED <<classifierVars, cacheVars, parserVars, rerunVars, threadVars, fetchVars>>

\* lines 93-105: scraper.extract_images returns f or raises; step 1 ends
StaticReturns(f) ==
    /\ pc = "static"
    /\ fast' = f
    /\ events' = Append(events, "static_end")
    /\ IF f.raised /\ ~except_fast(f.error)
       THEN pc' = "raised" /\ result' = result
       ELSE pc' = "static_done" /\ result' = process_fast(result, f)
    /\ UNCHANGED <<url, playwright_fallback, prefer_playwright, site,
                   pw, results, browser, pwCalls>>
    /\ UNCHANGED <<classifierVars, cacheVars, parserVars, rerunVars, threadVars, fetchVars>>

StaticReturn ==
    \E outcome \in FetchOutcomes : StaticReturns(extract_images(outcome, site.markup))

\* line 108, fallback taken: scrape_chapter_with_playwright is called
CallBrowser ==
    /\ pc = "static_done"
    /\ should_fallback(result, prefer_playwright)
    /\ pwCalls' = pwCalls + 1
    /\ events' = Append(events, "pw_start")
    /\ results' = results0
    /\ pc' = "pw_launch"
    /\ UNCHANGED <<url, playwright_fallback, prefer_playwright, site,
                   fast, pw, browser, result>>
    /\ UNCHANGED <<classifierVars, cacheVars, parserVars, rerunVars, threadVars, fetchVars>>

\* line 108, fallback not taken
SkipBrowser ==
    /\ pc = "static_done"
    /\ ~should_fallback(result, prefer_playwright)
    /\ pc' = "finish"
    /\ UNCHANGED <<url, playwright_fallback, prefer_playwright, site,
                   fast, pw, results, browser, result,
                   pwCalls, events>>
    /\ UNCHANGED <<classifierVars, cacheVars, parserVars, rerunVars, threadVars, fetchVars>>

\* worker lines 47-61: the browser is launched, or the launch raises
PwLaunch ==
    /\ pc = "pw_launch"
    /\ \E ok \in BOOLEAN :
        /\ browser' = [browser EXCEPT !.launches = @ + 1, !.launched = ok]
        /\ IF ok
           THEN pc' = "pw_goto" /\ results' = results
           ELSE pc' = "pw_return" /\ results' = [results EXCEPT !.error = "launch failed"]
    /\ UNCHANGED <<url, playwright_fallback, prefer_playwright, site,
                   fast, pw, result, pwCalls, events>>
    /\ UNCHANGED <<classifierVars, cacheVars, parserVars, rerunVars, threadVars, fetchVars>>

\* worker lines 63-67: page.goto, and once more with a longer timeout
PwGoto ==
    /\ pc = "pw_goto"
    /\ \E ok \in BOOLEAN :
        LET timeout == IF browser.gotos = <<>> THEN GOTO_TIMEOUT ELSE GOTO_RETRY_TIMEOUT
            gotos   == Append(browser.gotos, timeout)
        IN  /\ browser' = [browser EXCEPT !.gotos = gotos]
            /\ IF ok THEN pc' = "pw_scan" /\ results' = results
               ELSE IF Len(gotos) < 2 THEN pc' = "pw_goto" /\ results' = results
               ELSE pc' = "pw_return"
                    /\ results' = [results EXCEPT !.error = "goto failed"]
    /\ UNCHANGED <<url, playwright_fallback, prefer_playwright, site,
                   fast, pw, result, pwCalls, events>>
    /\ UNCHANGED <<classifierVars, cacheVars, parserVars, rerunVars, threadVars, fetchVars>>

\* worker lines 69-146: scroll, the three scans, the final filter
PwScan ==
    /\ pc = "pw_scan"
    /\ results' = worker_filter(worker_scan(site, url))
    /\ pc' = "pw_close"
    /\ UNCHANGED <<url, playwright_fallback, prefer_playwright, site,
                   fast, pw, browser, result, pwCalls,
                   events>>
    /\ UNCHANGED <<classifierVars, cacheVars, parserVars, rerunVars, threadVars, fetchVars>>

\* worker lines 148-151: context.close() and browser.close(), either may raise
PwClose ==
    /\ pc = "pw_close"
    /\ \E c \in {"ok", "context_close_raises", "browser_close_raises"} :
        /\ browser' = [browser EXCEPT !.context_closed = (c # "context_close_raises"),
                                      !.browser_closed = (c = "ok")]
        /\ results' = IF c = "ok" THEN results
                      ELSE [results EXCEPT !.error = "close failed"]
    /\ pc' = "pw_return"
    /\ UNCHANGED <<url, playwright_fallback, prefer_playwright, site,
                   fast, pw, result, pwCalls, events>>
    /\ UNCHANGED <<classifierVars, cacheVars, parserVars, rerunVars, threadVars, fetchVars>>

\* lines 109-128: scrape_chapter_with_playwright returns p or raises; step 2 ends
BrowserReturns(p) ==
    /\ pw' = p
    /\ events' = Append(events, "pw_end")
    /\ IF p.raised /\ ~except_pw(p.error)
       THEN pc' = "raised" /\ result' = result
       ELSE pc' = "finish" /\ result' = process_pw(result, p)
    /\ UNCHANGED <<url, playwright_fallback, prefer_playwright, site,
                   fast, results, browser, pwCalls>>
    /\ UNCHANGED <<classifierVars, cacheVars, parserVars, rerunVars, threadVars, fetchVars>>

\* worker line 153: return results
PwReturn ==
    /\ pc = "pw_return"
    /\ BrowserReturns([raised |-> FALSE, images |-> results.images,
                       has_sources |-> TRUE, sources |-> results.sources,
                       count |-> results.count, error |-> results.error])

\* lines 130-155; line 146 is outside the try blocks: what parse_chapter_number
\* raises leaves extract_chapter_content
Finish ==
    /\ pc = "finish"
    /\ IF memo_number[url].raised
       THEN /\ result' = [result EXCEPT !.title = memo_title_guess[url]]
            /\ pc' = "raised"
       ELSE /\ result' = finish(result, url)
            /\ pc' = "done"
    /\ UNCHANGED <<url, playwright_fallback, prefer_playwright, site,
                   fast, pw, results, browser, pwCalls,
                   events>>
    /\ UNCHANGED <<classifierVars, cacheVars, parserVars, rerunVars, threadVars, fetchVars>>

Init ==
    /\ \/ PipelineInit(DocUrls, Sites)
       \/ PipelineInit(BadDocUrls, {site0})
    /\ ClassifierIdle
    /\ CacheIdle
    /\ ParserIdle
    /\ RerunIdle
    /\ ThreadsIdle
    /\ FetchIdle

Next ==
    \/ CallStatic
    \/ StaticReturn
    \/ CallBrowser
    \/ SkipBrowser
    \/ PwLaunch
    \/ PwGoto
    \/ PwScan
    \/ PwClose
    \/ PwReturn
    \/ Finish

Spec == Init /\ [][Next]_vars

-----------------------------------------------------------------------------
(* One call of extract_chapter_content against stand-ins of the two passes *)

\* all sequences over S of length at most n
SeqsUpTo(S, n) == UNION { [1..k -> S] : k \in 0..n }

\* what a stand-in of scraper.extract_images may do: return a dict with any
\* image list, return the error dict, or raise
StubFasts ==
    { [raised |-> FALSE, images |-> im, count |-> Len(im), error |-> None] :
        im \in SeqsUpTo(StubPool, MaxStub) }
    \cup { [raised |-> FALSE, images |-> <<>>, count |-> 0, error |-> "fetch_failed"],
           [raised |-> TRUE, images |-> <<>>, count |-> 0, error |-> "boom"] }

\* what a stand-in of scrape_chapter_with_playwright may do: return a dict with
\* any image list (with or without a sources key), return the dict of a failed
\* launch, or raise
StubPws ==
    { [raised |-> FALSE, images |-> im, has_sources |-> h,
       sources |-> IF h THEN <<"dom_img", "next_json">> ELSE <<>>,
       count |-> Len(im), error |-> None] :
        im \in SeqsUpTo(StubPool, MaxStub), h \in BOOLEAN }
    \cup { [raised |-> FALSE, images |-> <<>>, has_sources |-> TRUE, sources |-> <<>>,
            count |-> 0, error |-> "launch failed"],
           [raised |-> TRUE, images |-> <<>>, has_sources |-> TRUE, sources |-> <<>>,
            count |-> 0, error |-> "boom"] }

StubStaticReturn == \E f \in StubFasts : StaticReturns(f)

StubBrowserReturn ==
    /\ pc = "pw_launch"
    /\ \E p \in StubPws : BrowserReturns(p)

StubInit ==
    /\ PipelineInit({"https://azoramoon.com/series/foo/chapter-7"} \cup BadDocUrls, {site0})
    /\ ClassifierIdle
    /\ CacheIdle
    /\ ParserIdle
    /\ RerunIdle
    /\ ThreadsIdle
    /\ FetchIdle

StubNext ==
    \/ CallStatic
    \/ StubStaticReturn
    \/ CallBrowser
    \/ SkipBrowser
    \/ StubBrowserReturn
    \/ Finish

StubSpec == StubInit /\ [][StubNext]_vars

-----------------------------------------------------------------------------
(* Properties of the orchestrator                                          *)

Returned == pc = "done"

\* the elements of a sequence
Range(items) == { items[i] : i \in 1..Len(items) }

\* no element occurs twice
NoRepeats(items) == \A i, j \in 1..Len(items) : items[i] = items[j] => i = j

\* position of the first occurrence of x in items (0: none)
FirstPos(x, items) ==
    IF InSeq(x, items) THEN CHOOSE i \in 1..Len(items) :
                                /\ items[i] = x
                                /\ \A j \in 1..(i - 1) : items[j] # x
    ELSE 0

\* the static pass yielded at least one classified image
StaticYielded == \E i \in 1..Len(fast.images) : memo_is_valid[fast.images[i]]

\* C1: whatever lists the two passes return (repeats and overlaps included),
\* the returned images list holds no URL twice and count is the number of
\* distinct URLs kept.
C1_NoDuplicateImages ==
    Returned =>
        /\ NoRepeats(result.images)
        /\ result.count = Cardinality(Range(result.images))
        /\ result.count = Len(result.images)

\* C1 happens: both passes returned lists with repeats that overlap each other
C1_Witness ==
    /\ Returned
    /\ ~NoRepeats(fast.images)
    /\ ~NoRepeats(pw.images)
    /\ Range(fast.images) \cap Range(pw.images) # {}
    /\ result.count = 2

\* C2: when the static pass yields at least one classified image and
\* prefer_playwright is false, scrape_chapter_with_playwright is never called
\* during the call and the result is built from the static images only.
C2_StaticShortCircuit ==
    (pc \notin {"idle", "static"} /\ StaticYielded /\ ~prefer_playwright) =>
        /\ pwCalls = 0
        /\ browser.launches = 0
        /\ pw = pw0
        /\ result.images = dict_fromkeys(SelectSeq(fast.images, is_valid_image_url))
        /\ Returned => result.sources = <<"dom_img">>

\* C2 happens: a call returned static images while the site had more to offer
\* to a browser
C2_Witness ==
    /\ Returned
    /\ StaticYielded
    /\ ~prefer_playwright
    /\ site.dom # <<>>
    /\ result.count = 1

\* the browser pass is due: the static pass is over and yielded no classified
\* image, or prefer_playwright is set
BrowserDue ==
    /\ pc \notin {"idle", "static"}
    /\ ~StaticYielded \/ prefer_playwright

\* after every step but the last the orchestrator or the worker has a next step
\* (the static pass and the scan of a loaded page always end: see StaticReturn
\* and PwScan, whose only condition is the position of the call)
C3_NotStuck ==
    /\ pc = "idle" => ENABLED CallStatic
    /\ pc = "static_done" => ENABLED CallBrowser \/ ENABLED SkipBrowser
    /\ pc = "pw_launch" => ENABLED PwLaunch
    /\ pc = "pw_goto" => ENABLED PwGoto
    /\ pc = "pw_close" => ENABLED PwClose
    /\ pc = "pw_return" => ENABLED PwReturn
    /\ pc = "finish" => ENABLED Finish
    /\ pc \in {"idle", "static", "static_done", "pw_launch", "pw_goto", "pw_scan",
               "pw_close", "pw_return", "finish", "done"}

C3_Safety ==
    /\ pwCalls <= 1
    /\ browser.launches <= pwCalls
    /\ InSeq("pw_start", events) =>
          /\ SubSeq(events, 1, 3) = <<"static_start", "static_end", "pw_start">>
          /\ fast # fast0
    /\ (BrowserDue /\ pc # "static_done") => pwCalls = 1
    /\ (BrowserDue /\ Returned) =>
          events = <<"static_start", "static_end", "pw_start", "pw_end">>
    /\ pc # "raised"
    /\ C3_NotStuck

\* the number of steps the call can still take
C3_Rank ==
    CASE pc = "idle"        -> 10
      [] pc = "static"      -> 9
      [] pc = "static_done" -> 8
      [] pc = "pw_launch"   -> 7
      [] pc = "pw_goto"     -> 6 - Len(browser.gotos)
      [] pc = "pw_scan"     -> 4
      [] pc = "pw_close"    -> 3
      [] pc = "pw_return"   -> 2
      [] pc = "finish"      -> 1
      [] OTHER              -> 0

\* C3: when the static pass yields no classified image or prefer_playwright is
\* set, the browser pass is invoked exactly once, only after the static pass
\* (its fetch included) has finished, and the call then goes on to return a
\* result, whether the browser pass found images, found none or failed: no
\* state before the return is stuck and every step brings the return closer.
C3_BrowserOnceAfterStatic == [](C3_Safety) /\ [][C3_Rank' < C3_Rank]_vars

\* C3 happens: the static pass found nothing, the browser could not navigate,
\* and the call returned
C3_Witness ==
    /\ Returned
    /\ ~StaticYielded
    /\ ~prefer_playwright
    /\ pwCalls = 1
    /\ pw.error = "goto failed"


\* the browser pass got as far as its scans
Scanned == pw.error \in {None, "close failed"}

\* the candidates in the order the strategies produce them: the static pass's
\* images, then the live DOM's img sources, then the deep search of
\* __NEXT_DATA__, then the deep search of the _next/data endpoint
CandidateStream ==
    fast.images
    \o (IF Scanned
        THEN [i \in 1..Len(site.dom) |-> memo_normalize_url[url][dom_src(site.dom[i])]]
             \o json_scan(site.nd, url)
             \o (IF site.buildId # None THEN json_scan(site.nj, url) ELSE <<>>)
        ELSE <<>>)

\* C4: the returned images are in first-occurrence order across the
\* strategies: static images first and in their own order, then the images
\* only the browser pass found, each at its first occurrence in the sequence
\* DOM scan, __NEXT_DATA__ deep search, _next/data endpoint.
C4_FirstOccurrenceOrder ==
    Returned =>
        /\ \A i \in 1..Len(result.images) :
              FirstPos(result.images[i], CandidateStream) > 0
        /\ \A i, j \in 1..Len(result.images) :
              i < j => FirstPos(result.images[i], CandidateStream)
                       < FirstPos(result.images[j], CandidateStream)
        /\ \A i \in 1..Len(result.images) :
              (i <= Len(fast.images)) <=> InSeq(result.images[i], fast.images)

\* C4 happens: the static pass contributed nothing, the DOM scan yields one
\* image and the secondary endpoint another, and both are returned
C4_Witness ==
    /\ Returned
    /\ fast.images = <<>>
    /\ Len(site.dom) = 1
    /\ Len(site.nj) = 1
    /\ result.images = << memo_normalize_url[url][dom_src(site.dom[1])], site.nj[1] >>
    /\ result.sources = <<"dom_img", "next_json">>

\* the strategies failed: the static pass raised or could not fetch, the
\* browser pass raised or could not launch
StaticFailed == fast.raised \/ fast.error = "fetch_failed"
BrowserFailed == pw.raised \/ pw.error \in {"launch failed", "goto failed"}

C5_NotStuck ==
    /\ pc = "idle" => ENABLED CallStatic
    /\ pc = "static" => ENABLED StubStaticReturn
    /\ pc = "static_done" => ENABLED CallBrowser \/ ENABLED SkipBrowser
    /\ pc = "pw_launch" => ENABLED StubBrowserReturn
    /\ pc = "finish" => ENABLED Finish
    /\ pc \in {"idle", "static", "static_done", "pw_launch", "finish", "done"}

\* C5: whatever the static pass does (returns images, returns the error dict of
\* a failed fetch, raises) and whatever the browser pass does (returns images,
\* returns an error result, raises), extract_chapter_content does not raise
\* and goes on to return; when both fail the returned images are empty, count
\* is 0 and note is a non-empty string.
C5_FailuresNeverAbort ==
    /\ pc # "raised"
    /\ C5_NotStuck
    /\ (Returned /\ StaticFailed /\ BrowserFailed) =>
          /\ result.images = <<>>
          /\ result.count = 0
          /\ Truthy(result.note)

\* C5 happens: both passes raised and the call returned with both recorded
C5_Witness ==
    /\ Returned
    /\ fast.raised
    /\ pw.raised
    /\ result.note = "fast_scrape_error: boom | playwright_error: boom"

\* C6: when the browser engine cannot be launched, extract_chapter_content
\* does not go on to return an ordinary result: the failure reaches the caller
\* as an exception.
C6_LaunchFailureIsHardFailure ==
    (browser.launches > 0 /\ ~browser.launched) => pc \notin {"finish", "done"}

\* C7: the returned note is non-empty whenever a stage that ran contributed no
\* image or ended in an error.
C7_NoteRecordsEveryFailedStage ==
    Returned =>
        /\ (StaticFailed \/ fast.images = <<>>) => Truthy(result.note)
        /\ (pwCalls > 0 /\ (pw.error # None \/ pw.images = <<>>)) => Truthy(result.note)

-----------------------------------------------------------------------------
(* The classifiers on their own                                            *)

\* candidate URLs: a host, a directory, a file name and an extension, so that
\* deny fragments and allow fragments occur alone, together and not at all
CandHosts == { "https://storage.azoramoon.com", "https://cdn.site",
               "https://wsrv.nl", "HTTPS://CDN.SITE" }
CandDirs == { "/", "/upload/", "/_next/static/", "/wp-manga/data/", "/Img/chapter_1/" }
CandNames == { "01", "icon-7", "like", "wow", "Emoji" }
CandExts == { ".jpg", ".PNG", ".gif", "" }
CandUrls ==
    { h \o d \o n \o e : h \in CandHosts, d \in CandDirs, n \in CandNames, e \in CandExts }
    \cup { "" }

PipelineIdle ==
    /\ PipelineInit({"https://azoramoon.com/series/foo/chapter-7"}, {site0})
    /\ playwright_fallback = FALSE

ClassifierInit ==
    /\ PipelineIdle
    /\ CacheIdle
    /\ ParserIdle
    /\ RerunIdle
    /\ ThreadsIdle
    /\ FetchIdle
    /\ cand \in CandUrls
    /\ verdict = verdict0

\* scraper.extract_images_from_html, lines 130-134: the decision on one src
ClassifyStatic ==
    /\ verdict = verdict0
    /\ verdict' = [by |-> "static", accept |-> static_accept(cand)]
    /\ UNCHANGED <<cand, pipelineVars, cacheVars, parserVars, rerunVars, threadVars, fetchVars>>

\* playwright_worker._looks_like_chapter_image on one candidate
ClassifyWorker ==
    /\ verdict = verdict0
    /\ verdict' = [by |-> "worker", accept |-> worker_looks_like_chapter_image(cand)]
    /\ UNCHANGED <<cand, pipelineVars, cacheVars, parserVars, rerunVars, threadVars, fetchVars>>

ClassifierNext ==
    \/ ClassifyStatic
    \/ ClassifyWorker

ClassifierSpec == ClassifierInit /\ [][ClassifierNext]_vars

\* the lists of the classifier that gave the verdict
DenyOf(by) == IF by = "static" THEN scraper_bad ELSE worker_blocked
AllowOf(by) == IF by = "static" THEN scraper_allowed ELSE worker_allowed
HasDeny == ContainsAny(lower(cand), DenyOf(verdict.by))
HasAllow == ContainsAny(lower(cand), AllowOf(verdict.by))

heuristic_deny == scraper_bad \o worker_blocked
heuristic_allow == worker_allowed
memo_heuristic ==
    [u \in UrlUniverse |-> /\ ~ContainsAny(lower(u), heuristic_deny)
                           /\ ContainsAny(lower(u), heuristic_allow)]

\* C9: every returned image, whichever strategy produced it, contains no
\* deny-list fragment and at least one allow-list fragment.
C9_ImagesPassHeuristic ==
    Returned => \A i \in 1..Len(result.images) : memo_heuristic[result.images[i]]

-----------------------------------------------------------------------------
(* The document cache: utils.cached_fetch                                  *)

\* utils.CACHE_TTL (seconds), the default of cached_fetch's ttl
CACHE_TTL == 180

\* number of cached_fetch calls, number of clock ticks, seconds per tick
MaxCalls == 3
MaxTicks == 2
TICK == 90

\* utils._make_cache_key; cf is cookies["cf_clearance"] and ua is
\* headers["User-Agent"], None when the dict or the entry is absent
_make_cache_key(u, cf, ua) ==
    LET k1 == IF cf # None THEN u \o "::cf=" \o cf ELSE u
    IN  IF ua # None THEN k1 \o "::ua=" \o ua ELSE k1

\* the arguments of the calls
FetchUrls == { "https://azoramoon.com/series" }
CfValues == { None, "A", "A::ua=B" }
UaValues == { None, "B" }
Ttls == { CACHE_TTL }

\* the body the origin serves to a session: it depends on the session cookie
Body(cf) == origin \o " for " \o cf

CacheInit ==
    /\ PipelineIdle
    /\ ClassifierIdle
    /\ ParserIdle
    /\ RerunIdle
    /\ ThreadsIdle
    /\ FetchIdle
    /\ CACHE = <<>>
    /\ now = 0
    /\ origin = "v1"
    /\ calls = <<>>

\* time passes
Tick ==
    /\ now < TICK * MaxTicks
    /\ now' = now + TICK
    /\ UNCHANGED <<CACHE, origin, calls, pipelineVars, classifierVars, parserVars, rerunVars,
                   threadVars, fetchVars>>

\* the origin publishes new content
OriginChanges ==
    /\ origin = "v1"
    /\ origin' = "v2"
    /\ UNCHANGED <<CACHE, now, calls, pipelineVars, classifierVars, parserVars, rerunVars,
                   threadVars, fetchVars>>

\* a variant of the freshness test in which the boundary counts as fresh
entry_fresh_inclusive(ts, t, ttl) == t - ts <= ttl

\* line 49: now - entry["ts"] < ttl
entry_fresh(ts, t, ttl) == t - ts < ttl

\* a variant of cached_fetch that stores before it tests the status: a failed
\* fetch leaves an entry
cached_fetch_stores_failure(u, cf, ua, ttl, ok) ==
    LET cache_key == _make_cache_key(u, cf, ua)
        hit == /\ cache_key \in DOMAIN CACHE
               /\ entry_fresh(CACHE[cache_key].ts, now, ttl)
        c0 == [url |-> u, cf |-> cf, ua |-> ua, ttl |-> ttl, at |-> now]
    IN  /\ Len(calls) < MaxCalls
        /\ IF hit
           THEN /\ ok
                /\ calls' = Append(calls, c0 @@ [fetched |-> FALSE, raised |-> FALSE,
                                                 body |-> CACHE[cache_key].html])
                /\ UNCHANGED CACHE
           ELSE IF ok
           THEN /\ CACHE' = (cache_key :> [ts |-> now, html |-> Body(cf)]) @@ CACHE
                /\ calls' = Append(calls, c0 @@ [fetched |-> TRUE, raised |-> FALSE,
                                                 body |-> Body(cf)])
           ELSE /\ calls' = Append(calls, c0 @@ [fetched |-> TRUE, raised |-> TRUE,
                                                 body |-> None])
                /\ CACHE' = (cache_key :> [ts |-> now, html |-> None]) @@ CACHE
        /\ UNCHANGED <<now, origin, pipelineVars, classifierVars, parserVars, rerunVars,
                   threadVars, fetchVars>>

\* utils.cached_fetch(u, ttl, headers, cookies); ok: the GET succeeds and
\* raise_for_status passes.  (The 0.25 s sleep after a store is below the
\* clock's resolution.)
cached_fetch(u, cf, ua, ttl, ok) ==
    LET cache_key == _make_cache_key(u, cf, ua)
        hit == /\ cache_key \in DOMAIN CACHE
               /\ entry_fresh(CACHE[cache_key].ts, now, ttl)
        c0 == [url |-> u, cf |-> cf, ua |-> ua, ttl |-> ttl, at |-> now]
    IN  /\ Len(calls) < MaxCalls
        /\ IF hit
           THEN /\ ok
                /\ calls' = Append(calls, c0 @@ [fetched |-> FALSE, raised |-> FALSE,
                                                 body |-> CACHE[cache_key].html])
                /\ UNCHANGED CACHE
           ELSE IF ok
           THEN /\ CACHE' = (cache_key :> [ts |-> now, html |-> Body(cf)]) @@ CACHE
                /\ calls' = Append(calls, c0 @@ [fetched |-> TRUE, raised |-> FALSE,
                                                 body |-> Body(cf)])
           ELSE /\ calls' = Append(calls, c0 @@ [fetched |-> TRUE, raised |-> TRUE,
                                                 body |-> None])
                /\ UNCHANGED CACHE
        /\ UNCHANGED <<now, origin, pipelineVars, classifierVars, parserVars, rerunVars,
                   threadVars, fetchVars>>

CachedFetch ==
    \E u \in FetchUrls, cf \in CfValues, ua \in UaValues, ttl \in Ttls, ok \in BOOLEAN :
        cached_fetch(u, cf, ua, ttl, ok)

CacheNext ==
    \/ Tick
    \/ OriginChanges
    \/ CachedFetch

CacheSpec == CacheInit /\ [][CacheNext]_vars

SameIdentity(a, b) == a.url = b.url /\ a.cf = b.cf /\ a.ua = b.ua
Stored(c) == c.fetched /\ ~c.raised

\* the body in the cache slot of call j when it was made: that of the latest
\* successful fetch before j under the same key
StoredBodyFor(j) ==
    LET key(c) == _make_cache_key(c.url, c.cf, c.ua)
        ks == { k \in 1..(j - 1) : Stored(calls[k]) /\ key(calls[k]) = key(calls[j]) }
        last == CHOOSE k \in ks : \A m \in ks : m <= k
    IN  calls[last].body

\* first half of C10: a call with the same (url, cf_clearance, User-Agent) as
\* an earlier call that fetched successfully less than ttl seconds before
\* performs no network fetch and returns the stored body
C10_RepeatWithinTtlIsServedFromCache ==
    \A i, j \in 1..Len(calls) :
        ( /\ i < j
          /\ SameIdentity(calls[i], calls[j])
          /\ Stored(calls[i])
          /\ calls[j].at - calls[i].at < calls[j].ttl )
        => /\ ~calls[j].fetched
           /\ calls[j].body = StoredBodyFor(j)

\* second half of C10: a call whose cf_clearance cookie differs from that of
\* every earlier call for the same url performs a fresh network fetch
C10_DifferentCookieFetchesAfresh ==
    \A j \in 1..Len(calls) :
        (\A i \in 1..(j - 1) :
            calls[i].url = calls[j].url => calls[i].cf # calls[j].cf)
        => calls[j].fetched

\* C10: for any sequence of cached_fetch calls, a repeat of an identity within
\* ttl of its successful fetch is served from the cache without a network
\* fetch, and a call with the same url but a different cf_clearance cookie
\* performs a fresh network fetch.
C10_CacheHitsOnlyForSameIdentity ==
    /\ C10_RepeatWithinTtlIsServedFromCache
    /\ C10_DifferentCookieFetchesAfresh

\* C11: two requests for the same URL that differ in the cf_clearance value
\* or in the User-Agent (either may be absent) never get the same cache key.
C11_DistinctIdentitiesDistinctKeys ==
    \A i, j \in 1..Len(calls) :
        (calls[i].url = calls[j].url /\ ~SameIdentity(calls[i], calls[j]))
        => _make_cache_key(calls[i].url, calls[i].cf, calls[i].ua)
           # _make_cache_key(calls[j].url, calls[j].cf, calls[j].ua)

\* the simple scrape returned at least one image
SimpleScrapeReturnedImages == fast.images # <<>>

\* C13: on GET /chapter/content the Playwright pass runs only when
\* playwright_fallback is true and the simple scrape returned no image: with
\* playwright_fallback true and an image from the simple scrape it does not
\* run, and with playwright_fallback false it never runs.
C13_PlaywrightOnlyAsFallback ==
    /\ (pc \notin {"idle", "static"} /\ playwright_fallback /\ SimpleScrapeReturnedImages)
          => pwCalls = 0
    /\ ~playwright_fallback => pwCalls = 0

-----------------------------------------------------------------------------
(* Checking the metadata resolver on its own                               *)

\* the arguments of the calls
ParseTitles ==
    { None, "", "Chapter 10.5", "Vol 2 Chapter 10.5", "Season 2", "Chapter",
      "chapter 007.50", "CHAPTER_/:- 3", "Side story", "ch 1.5.2", "12 chapters" }
ParseUrls ==
    { None, "https://x/series/foo/chapter-7", "https://x/series/foo",
      "https://x9/series/foo?p=3", "https://[x/series/foo",
      "https://x/series/foo/chapter/295", "https://x/a/3.5/", "x/12",
      "https://x/series/foo;v=2" }

ParserInit ==
    /\ PipelineIdle
    /\ ClassifierIdle
    /\ CacheIdle
    /\ RerunIdle
    /\ ThreadsIdle
    /\ FetchIdle
    /\ \E t \in ParseTitles, u \in ParseUrls :
          parsed = [parsed0 EXCEPT !.title = t, !.url = u]

ParseChapterNumber ==
    /\ ~parsed.called
    /\ LET r == parse_chapter_number(parsed.title, parsed.url)
       IN  parsed' = [parsed EXCEPT !.called = TRUE, !.raised = r.raised,
                                    !.number = r.number]
    /\ UNCHANGED <<pipelineVars, classifierVars, cacheVars, rerunVars, threadVars, fetchVars>>

ParserNext ==
    \/ ParseChapterNumber

ParserSpec == ParserInit /\ [][ParserNext]_vars

\* the text of an argument (None: absent)
TextOf(x) == IF x = None THEN "" ELSE x

\* C12 without its last part: the title is tried first and the URL path only
\* when the title yields nothing, a number after a 'chapter' marker wins over
\* an earlier bare number, fractions are kept
C12_TitleFirstMarkerWins ==
    (parsed.called /\ ~parsed.raised) =>
        /\ HasDigit(TextOf(parsed.title)) =>
              parsed.number = try_find(TextOf(parsed.title))
        /\ (~HasDigit(TextOf(parsed.title)) /\ parsed.url # None) =>
              parsed.number = try_find(url_path(parsed.url))
        /\ parsed.title = "Chapter 10.5" => parsed.number = <<105, 10>>
        /\ parsed.title = "Vol 2 Chapter 10.5" => parsed.number = <<105, 10>>
        /\ parsed.title = "chapter 007.50" => parsed.number = <<75, 10>>
        /\ parsed.title = "12 chapters" => parsed.number = <<12, 1>>
        /\ (parsed.title = None /\ parsed.url = "https://x/series/foo/chapter-7") =>
              parsed.number = <<7, 1>>
        /\ (parsed.title = None /\ parsed.url = "https://x/series/foo") =>
              parsed.number = None
        /\ (parsed.title = "Side story" /\ parsed.url = "https://x9/series/foo?p=3") =>
              parsed.number = None

\* C12: parse_chapter_number tries the title first and the URL path only when
\* the title yields nothing, prefers the number after a 'chapter' marker,
\* returns fractions as floats, and returns None without raising when neither
\* the title nor the URL holds a number.
C12_ParseChapterNumber ==
    /\ C12_TitleFirstMarkerWins
    /\ parsed.called => ~parsed.raised
    /\ (parsed.called /\ ~HasDigit(TextOf(parsed.title)) /\ ~HasDigit(TextOf(parsed.url)))
          => parsed.number = None

-----------------------------------------------------------------------------
(* Two calls of extract_chapter_content in one process                     *)

\* sites that serve img elements only, in the markup and in the live DOM
RerunSites ==
    { st \in Sites : st.nd = <<>> /\ st.nj = <<>> /\ st.buildId = None }

RerunInit ==
    /\ PipelineInit({"https://azoramoon.com/series/foo/chapter-7"}, RerunSites)
    /\ ClassifierIdle
    /\ CacheIdle
    /\ ParserIdle
    /\ RerunIdle
    /\ ThreadsIdle
    /\ FetchIdle

\* the call has returned; the same call is made again: same arguments, same
\* upstream content, a fresh result dict (line 90)
Rerun ==
    /\ pc = "done"
    /\ ~first.ran
    /\ first' = [ran |-> TRUE, fast |-> fast, pw |-> pw, result |-> result,
                 events |-> events]
    /\ pc' = "idle"
    /\ fast' = fast0
    /\ pw' = pw0
    /\ results' = results0
    /\ browser' = browser0
    /\ result' = result0
    /\ pwCalls' = 0
    /\ events' = <<>>
    /\ UNCHANGED <<url, playwright_fallback, prefer_playwright, site>>
    /\ UNCHANGED <<classifierVars, cacheVars, parserVars, threadVars, fetchVars>>

RerunNext ==
    \/ CallStatic
    \/ StaticReturn
    \/ CallBrowser
    \/ SkipBrowser
    \/ PwLaunch
    \/ PwGoto
    \/ PwScan
    \/ PwClose
    \/ PwReturn
    \/ Finish
    \/ Rerun

RerunSpec == RerunInit /\ [][RerunNext]_vars

\* the second call met the same upstream as the first: the static pass and
\* the browser pass gave what they gave the first time
SameUpstream == first.ran /\ fast = first.fast /\ pw = first.pw

StaticGets ==
    LET evs == (IF first.ran THEN first.events ELSE <<>>) \o events
    IN  Cardinality({ i \in 1..Len(evs) : evs[i] = "static_start" })

\* C15: the static fetch goes through the document cache: two calls of
\* extract_chapter_content with the same (url, cf, ua) within the TTL cause at
\* most one static HTTP GET in total.
C15_StaticFetchThroughCache == StaticGets <= 1

-----------------------------------------------------------------------------
(* Expiry in the document cache                                            *)

\* the call a step appends to the log
LastCall == calls'[Len(calls')]
KeyOf(c) == _make_cache_key(c.url, c.cf, c.ua)

\* the entry of the call's key is missing or ttl or more seconds old
Expired(c) ==
    \/ KeyOf(c) \notin DOMAIN CACHE
    \/ c.at - CACHE[KeyOf(c)].ts >= c.ttl

C16_Step ==
    /\ DOMAIN CACHE \subseteq DOMAIN CACHE'
    /\ Len(calls') = Len(calls) + 1 =>
          LET c == LastCall
              k == KeyOf(c)
          IN  /\ c.at = now
              /\ \A k2 \in DOMAIN CACHE : k2 # k => CACHE'[k2] = CACHE[k2]
              /\ DOMAIN CACHE' \subseteq DOMAIN CACHE \cup {k}
              /\ Expired(c) <=> c.fetched
              /\ ~Expired(c) => /\ c.body = CACHE[k].html
                                /\ ~c.raised
                                /\ CACHE' = CACHE
              /\ (Expired(c) /\ ~c.raised) =>
                    /\ c.body = Body(c.cf)
                    /\ k \in DOMAIN CACHE'
                    /\ CACHE'[k] = [ts |-> now, html |-> c.body]
              /\ (Expired(c) /\ c.raised) => CACHE' = CACHE
    /\ Len(calls') # Len(calls) + 1 => CACHE' = CACHE

-----------------------------------------------------------------------------
(* cached_fetch called from the threads of the executor                    *)

\* main.executor: ThreadPoolExecutor(max_workers=3)
max_workers == 3

Workers == 1..max_workers

\* the cookie values the concurrent calls use: two keys
ConcCfValues == { None, "A" }

\* a thread that has not called cached_fetch yet
thread0 == [pc |-> "idle", url |-> None, cf |-> None, ua |-> None, ttl |-> 0,
            now |-> 0, key |-> None, html |-> None]

ConcInit ==
    /\ PipelineIdle
    /\ ClassifierIdle
    /\ ParserIdle
    /\ RerunIdle
    /\ CACHE = <<>>
    /\ now = 0
    /\ origin = "v1"
    /\ calls = <<>>
    /\ threads = [t \in Workers |-> thread0]
    /\ FetchIdle

ConcUnchanged ==
    UNCHANGED <<now, origin, calls, pipelineVars, classifierVars, parserVars, rerunVars,
                fetchVars>>

\* lines 46-47 in thread t: now = time.time(); cache_key = _make_cache_key(...)
ThreadBegin(t, u, cf, ua, ttl) ==
    /\ threads[t].pc = "idle"
    /\ threads' = [threads EXCEPT ![t] =
                      [pc |-> "lookup", url |-> u, cf |-> cf, ua |-> ua, ttl |-> ttl,
                       now |-> now, key |-> _make_cache_key(u, cf, ua), html |-> None]]
    /\ UNCHANGED CACHE
    /\ ConcUnchanged

\* lines 48-50 in thread t: entry = _CACHE.get(cache_key); return it when fresh
ThreadLookup(t) ==
    LET th == threads[t]
        hit == /\ th.key \in DOMAIN CACHE
               /\ entry_fresh(CACHE[th.key].ts, th.now, th.ttl)
    IN  /\ th.pc = "lookup"
        /\ threads' = [threads EXCEPT ![t] =
                          IF hit THEN [th EXCEPT !.pc = "returned", !.html = CACHE[th.key].html]
                          ELSE [th EXCEPT !.pc = "get"]]
        /\ UNCHANGED CACHE
        /\ ConcUnchanged

\* lines 53-66 in thread t: r = sess.get(url); r.raise_for_status(); html = r.text
ThreadGet(t, ok) ==
    LET th == threads[t]
    IN  /\ th.pc = "get"
        /\ threads' = [threads EXCEPT ![t] =
                          IF ok THEN [th EXCEPT !.pc = "store", !.html = Body(th.cf)]
                          ELSE [th EXCEPT !.pc = "raised"]]
        /\ UNCHANGED CACHE
        /\ ConcUnchanged

\* lines 67-70 in thread t: _CACHE[cache_key] = {"ts": now, "html": html}; return
ThreadStore(t) ==
    LET th == threads[t]
    IN  /\ th.pc = "store"
        /\ CACHE' = (th.key :> [ts |-> th.now, html |-> th.html]) @@ CACHE
        /\ threads' = [threads EXCEPT ![t] = [th EXCEPT !.pc = "returned"]]
        /\ ConcUnchanged

ConcNext ==
    \/ Tick
    \/ OriginChanges
    \/ \E t \in Workers, u \in FetchUrls, cf \in ConcCfValues, ttl \in Ttls :
           ThreadBegin(t, u, cf, None, ttl)
    \/ \E t \in Workers : ThreadLookup(t)
    \/ \E t \in Workers, ok \in BOOLEAN : ThreadGet(t, ok)
    \/ \E t \in Workers : ThreadStore(t)

ConcSpec == ConcInit /\ [][ConcNext]_vars

ThreadsFinished == \A t \in Workers : threads[t].pc \in {"returned", "raised"}

\* every key a finished call asked for and fetched successfully has an entry
C17_EveryRequestedKeyStored ==
    ThreadsFinished =>
        \A t \in Workers : threads[t].pc = "returned" => threads[t].key \in DOMAIN CACHE

\* a step that writes one key leaves the entries of the other keys alone
C17_OtherKeysUndisturbed ==
    [][\A t \in Workers :
          (threads[t].pc = "store" /\ threads'[t].pc = "returned") =>
              \A k \in DOMAIN CACHE : k # threads[t].key =>
                  k \in DOMAIN CACHE' /\ CACHE'[k] = CACHE[k]]_vars

\* C17: under any interleaving of concurrent cached_fetch calls, an entry of
\* a key is never replaced by the body and timestamp of a call that started
\* earlier than the call whose entry is already stored: the stored timestamp
\* of a key never decreases.
C17_StoredTimestampNeverDecreases ==
    [][\A k \in DOMAIN CACHE : k \in DOMAIN CACHE' /\ CACHE'[k].ts >= CACHE[k].ts]_vars

-----------------------------------------------------------------------------
(* Release of the browser session                                          *)

\* scrape_chapter_with_playwright has returned to step 2
BrowserPassReturned == pwCalls > 0 /\ pc \in {"finish", "done", "raised"}

\* C18: whenever scrape_chapter_with_playwright returns, normally, after a
\* navigation failure or after any exception raised between launch and
\* return, both context.close() and browser.close() have been executed for
\* the session the call launched.
C18_SessionReleasedOnEveryExit ==
    (BrowserPassReturned /\ browser.launched) =>
        (browser.context_closed /\ browser.browser_closed)

-----------------------------------------------------------------------------
(* Navigation attempts of the browser pass                                 *)

\* the attempts made so far: the first with the short timeout, the second
\* with a strictly longer one, never a third
C19_Attempts ==
    /\ Len(browser.gotos) <= 2
    /\ Len(browser.gotos) >= 1 => browser.gotos[1] = GOTO_TIMEOUT
    /\ Len(browser.gotos) = 2 => /\ browser.gotos[2] = GOTO_RETRY_TIMEOUT
                                 /\ browser.gotos[2] > browser.gotos[1]
    /\ browser.gotos # <<>> => browser.launched

\* a step of the browser pass, seen from navigation
C19_Step ==
    \* an attempt is made only while navigating; the second only after the
    \* first one failed (the pass is still navigating with one attempt made)
    /\ browser'.gotos # browser.gotos =>
          /\ pc = "pw_goto"
          /\ Len(browser'.gotos) = Len(browser.gotos) + 1
    \* the scan follows a successful attempt and nothing else
    /\ (pc' = "pw_scan" /\ pc # "pw_scan") =>
          (pc = "pw_goto" /\ browser'.gotos # browser.gotos)
    \* the second attempt failed: no scan, an error recorded, zero images
    /\ (pc = "pw_goto" /\ Len(browser.gotos) = 1 /\ pc' # "pw_scan") =>
          /\ pc' = "pw_return"
          /\ results'.error = "goto failed"
          /\ results'.images = <<>>
          /\ results'.count = 0
    \* and the pass ends there
    /\ (pc = "pw_return" /\ pc' # pc) =>
          /\ pc' \in {"finish", "raised"}
          /\ browser' = browser
          /\ pw'.error = results.error
          /\ pw'.images = results.images
          /\ pw'.count = results.count

\* C19: navigation is attempted at most twice per call; the second attempt
\* happens only after the first one failed and uses a strictly longer timeout
\* (120000 ms after 60000 ms); if the second attempt also fails, no scroll,
\* DOM scan or JSON search is performed, no third attempt is made, and the
\* pass ends with an error recorded and zero images.
C19_NavigationRetriedOnce == []C19_Attempts /\ [][C19_Step]_vars

\* C19 happens: both attempts failed and the pass returned its error
C19_Witness ==
    /\ pc \in {"finish", "done"}
    /\ browser.gotos = <<GOTO_TIMEOUT, GOTO_RETRY_TIMEOUT>>
    /\ pw.error = "goto failed"
    /\ pw.images = <<>>
    /\ ~browser.context_closed

-----------------------------------------------------------------------------
(* The two sub-techniques of the static extractor                          *)

\* scraper.extract_images fetched the document and returned its images
StaticExtracted == pc \notin {"idle", "static"} /\ ~fast.raised /\ fast.error = None

\* the leaves of __NEXT_DATA__ that are image URLs the static classifier accepts
StaticJsonImages ==
    SelectSeq(deep_search_for_images(site.nd), static_accept)

\* C20: the static extractor runs the markup scan and the __NEXT_DATA__ deep
\* search on every document and concatenates their results (markup first)
\* before classification, so an image URL present only in the embedded JSON is
\* returned even when the markup scan already found images.
C20_StaticReturnsJsonImages ==
    StaticExtracted =>
        \A i \in 1..Len(StaticJsonImages) : InSeq(StaticJsonImages[i], fast.images)

-----------------------------------------------------------------------------
(* The attribute the markup scan reads                                     *)

\* the reading the claim describes: data-src when present and non-empty,
\* src otherwise
LazyFirst(img) ==
    IF Truthy(img.data_src) THEN img.data_src
    ELSE IF Truthy(img.src) THEN img.src
    ELSE ""

\* the images the static scan returns when every element is read lazy-first
LazyFirstStaticImages ==
    dict_fromkeys(
        SelectSeq(MapSeq(SelectSeq(MapSeq(site.markup, LAMBDA e : strip(LazyFirst(e))),
                                   LAMBDA x : x # ""),
                         static_normalize),
                  static_accept))

\* C21: for every img element carrying both a non-empty data-src and a
\* non-empty src, the candidate the markup scan takes is the data-src value;
\* src is used only when data-src is absent or empty: what the static scan
\* returns is what it returns when every element is read data-src first.
C21_LazyAttributePreferred ==
    StaticExtracted => fast.images = LazyFirstStaticImages

-----------------------------------------------------------------------------
(* Normalization against the document URL                                  *)

\* the resolution the claim describes: a protocol-relative candidate takes the
\* document's scheme, a root-relative one its scheme and host
ResolveAgainst(u, base_url) ==
    IF StartsWith(u, "//") THEN url_scheme(base_url) \o ":" \o u
    ELSE IF StartsWith(u, "/")
         THEN url_scheme(base_url) \o "://" \o url_netloc(base_url) \o u
    ELSE u

\* the images the static scan returns when its candidates are resolved
\* against the document URL
ResolvedStaticImages ==
    dict_fromkeys(
        SelectSeq(MapSeq(SelectSeq(MapSeq(site.markup, static_src), LAMBDA x : x # ""),
                         LAMBDA x : ResolveAgainst(x, url)),
                  static_accept))

\* C22: URL normalization resolves a protocol-relative candidate with the
\* scheme of the document URL and a root-relative candidate with the scheme
\* and host of the document URL, for every document URL; any other candidate
\* is returned unchanged: what the static scan returns is what it returns
\* when its candidates are resolved against the document URL.
C22_NormalizedAgainstDocument ==
    StaticExtracted => fast.images = ResolvedStaticImages

-----------------------------------------------------------------------------
(* scraper.fetch_html                                                      *)

\* line 72: the number of characters of the body kept in body_snippet
SNIPPET_MAX == 1500

\* s repeated n times
RECURSIVE Repeat(_, _)
Repeat(s, n) ==
    IF n = 0 THEN ""
    ELSE LET h == Repeat(s, n \div 2)
         IN  IF n % 2 = 0 THEN h \o h ELSE h \o h \o s

\* the final status codes and the bodies (resp.text) of the responses: empty,
\* short, exactly SNIPPET_MAX characters, and longer
Statuses == { 200, 204, 304, 403, 404, 500, 503 }
Bodies ==
    { "", "<html>ok</html>", Repeat("x", SNIPPET_MAX), Repeat("x", SNIPPET_MAX) \o "y",
      Repeat("x", SNIPPET_MAX + 7) }

\* what client.get raises instead of returning a response: connection and
\* timeout failures (subclasses of httpx.RequestError) and anything else
RequestErrors == { "ConnectError", "ConnectTimeout", "ReadTimeout" }
OtherErrors == { "InvalidURL" }

\* a variant of the snippet that keeps the whole body
body_snippet_whole(text) == text

\* line 72: (resp.text or "")[:1500]
body_snippet(text) ==
    IF Len(text) <= SNIPPET_MAX THEN text ELSE SubSeq(text, 1, SNIPPET_MAX)

FetchInit ==
    /\ PipelineIdle
    /\ ClassifierIdle
    /\ CacheIdle
    /\ ParserIdle
    /\ RerunIdle
    /\ ThreadsIdle
    /\ FetchIdle

FetchUnchanged ==
    UNCHANGED <<pipelineVars, classifierVars, cacheVars, parserVars, rerunVars, threadVars>>

\* lines 52-59: fetch_html(u) is called and opens its client
FetchCall(u) ==
    /\ fetch.pc = "idle"
    /\ fetch' = [fetch EXCEPT !.pc = "get", !.url = u]
    /\ FetchUnchanged

\* line 60 with the except clauses of lines 77-80: client.get(url) returns the
\* final response, or raises and fetch_html returns the error dict
FetchGet ==
    /\ fetch.pc = "get"
    /\ \/ \E code \in Statuses, text \in Bodies :
             fetch' = [fetch EXCEPT !.pc = "encoding", !.gets = @ + 1,
                                    !.outcome = "response", !.status_code = code,
                                    !.text = text]
       \/ \E e \in RequestErrors :
             fetch' = [fetch EXCEPT !.pc = "returned", !.gets = @ + 1, !.outcome = e,
                                    !.ret = [ret0 EXCEPT !.error = "request_error"]]
       \/ \E e \in OtherErrors :
             fetch' = [fetch EXCEPT !.pc = "returned", !.gets = @ + 1, !.outcome = e,
                                    !.ret = [ret0 EXCEPT !.error = "unknown_error"]]
    /\ FetchUnchanged

\* lines 63-66: resp.encoding = "utf-8"; what it raises is swallowed
FetchEncoding ==
    /\ fetch.pc = "encoding"
    /\ fetch' = [fetch EXCEPT !.pc = "status"]
    /\ FetchUnchanged

\* lines 68-75: the error dict of a non-200 response, or (True, resp.text)
FetchReturn ==
    /\ fetch.pc = "status"
    /\ fetch' = [fetch EXCEPT
                   !.pc = "returned",
                   !.ret = IF fetch.status_code # 200
                           THEN [ret0 EXCEPT !.error = "bad_status",
                                             !.status_code = fetch.status_code,
                                             !.body_snippet = body_snippet(fetch.text)]
                           ELSE [ret0 EXCEPT !.ok = TRUE, !.html = fetch.text]]
    /\ FetchUnchanged

FetchNext ==
    \/ \E u \in DocUrls \cup BadDocUrls : FetchCall(u)
    \/ FetchGet
    \/ FetchEncoding
    \/ FetchReturn

FetchSpec == FetchInit /\ [][FetchNext]_vars

IsPrefix(a, b) == Len(a) <= Len(b) /\ SubSeq(b, 1, Len(a)) = a

-----------------------------------------------------------------------------
(* Failed fetches and the document cache                                   *)

\* a step in which cached_fetch raised
C24_Step ==
    (Len(calls') = Len(calls) + 1 /\ LastCall.raised) =>
        /\ LastCall.fetched
        /\ LastCall.body = None
        /\ CACHE' = CACHE

\* after a call that raised, the next call for that key fetches
C24_NextCallFetches ==
    \A i, j \in 1..Len(calls) :
        (/\ i < j
         /\ calls[i].raised
         /\ KeyOf(calls[j]) = KeyOf(calls[i])
         /\ \A m \in (i + 1)..(j - 1) : KeyOf(calls[m]) # KeyOf(calls[i]))
        => calls[j].fetched

\* C24: when cached_fetch's network call raises or returns an HTTP error
\* status, the error propagates to the caller and the cache is left exactly as
\* it was before the call (no entry is created for the key, and an expired
\* entry for the key keeps its old body and timestamp), so the next call for
\* that key fetches again.
C24_FailedFetchNeverCached == []C24_NextCallFetches /\ [][C24_Step]_vars

\* C24 happens: the last call found an expired entry under its key, its fetch
\* failed, and the entry is still the one an earlier call stored
C24_Witness ==
    /\ calls # <<>>
    /\ LET c == calls[Len(calls)]
       IN  /\ c.raised
           /\ KeyOf(c) \in DOMAIN CACHE
           /\ c.at - CACHE[KeyOf(c)].ts >= c.ttl
           /\ \E h \in 1..(Len(calls) - 1) :
                 /\ Stored(calls[h])
                 /\ CACHE[KeyOf(c)] = [ts |-> calls[h].at, html |-> calls[h].body]

-----------------------------------------------------------------------------
(* The shape of the returned dict                                          *)

\* C25: every dict returned by extract_chapter_content satisfies: count equals
\* the length of images; sources is empty exactly when images is empty; and
\* count = 0 implies note is a non-empty string.
C25_ReturnedDictConsistent ==
    Returned =>
        /\ result.count = Len(result.images)
        /\ (result.sources = <<>>) <=> (result.images = <<>>)
        /\ result.count = 0 => (result.note # None /\ result.note # "")

\* C25 happens: a returned dict whose images all came from the browser pass
C25_Witness ==
    /\ Returned
    /\ fast.images = <<>>
    /\ result.count > 0
    /\ result.sources # <<>>
    /\ result.note = None

-----------------------------------------------------------------------------
(* One verdict whichever strategy classifies                               *)

\* the decision of the classifier that did not give the verdict
OtherVerdict ==
    IF verdict.by = "static" THEN worker_looks_like_chapter_image(cand)
    ELSE static_accept(cand)

\* C26: the classification verdict for a URL does not depend on which
\* strategy produced it: for every candidate URL the static pass's accept
\* decision equals the browser pass's accept decision.
C26_SameVerdictFromBothPasses ==
    verdict # verdict0 => (verdict.accept <=> OtherVerdict)

====
